---- MODULE Spec2Model ----
(***************************************************************************)
(* Lifecycle of the Xilinx DMA bridge platform driver:                     *)
(* xilinx_dma_bridge_probe (attach) and xilinx_dma_bridge_remove (detach)  *)
(* of driver/xilinx_dma_bridge_main.c, one statement group per action.     *)
(* The collaborators (kmalloc, axidma_dma_init, axidma_chrdev_init,        *)
(* axidma_chrdev_exit, axidma_dma_exit, kfree, dev_set_drvdata,            *)
(* dev_get_drvdata) are modelled by their effect on the handle storage and *)
(* by the event each call appends to the per-call trace.                   *)
(***************************************************************************)
EXTENDS Integers, Sequences, FiniteSets, TLC

\* ------------------------------------------------------------------ bounds
\* Number of probe/remove calls issued in one run, over all devices.
MaxCalls == 4
\* Number of calls issued in a run in which entered calls are kept running.
FairCalls == 2
\* Number of struct axidma_device objects the allocator can hand out at once.
HeapSlots == 2

\* ------------------------------------------------------- program constants
ENOMEM == 12
ENOSYS == 38
NUM_DEVICES == 1

\* The platform devices that can be bound to the driver.
Devices == {"pdev0", "pdev1"}

\* Results a subsystem init function can hand back (negative: failure).
RcValues == {-22, -12, 0, 1}

\* The values the two module parameters (name, minor number) can be loaded
\* with: the defaults, or values given on the command line.
ParamValues == {<<"xilinx_dma_bridge", 0>>, <<"dev0", 1>>}

\* A handle (struct axidma_device *) is the address of one heap slot.
Handles == 1..HeapSlots
NULL == 0
UNSET == "unset"

VARIABLES
    CHARACTER_DEVICE_NAME, \* module parameter
    MINOR_NUMBER,          \* module parameter
    heap,                  \* the kmalloc'ed struct axidma_device objects
    drvdata,               \* pdev->dev driver data slot, per device
    pc,                    \* position of the running call, per device
    axidma_dev,            \* local variable axidma_dev of the running call
    rc,                    \* local variable rc of the running probe
    ret,                   \* value returned by the last finished call
    op,                    \* the call running or last finished, per device
    dma_held,              \* DMA subsystem: inits minus exits, per device
    chrdev_held,           \* character device: inits minus exits, per device
    bound,                 \* platform layer: device is bound to the driver
    calls,                 \* number of calls issued so far
    trace,                 \* collaborator calls of the running/last call
    pre,                   \* snapshot taken when the call was entered
    acqOrder               \* acquire calls of the attach that bound the device

vars == <<CHARACTER_DEVICE_NAME, MINOR_NUMBER, heap, dma_held, chrdev_held,
          drvdata, pc, axidma_dev, rc, ret, op, bound, calls, trace, pre,
          acqOrder>>

params == <<CHARACTER_DEVICE_NAME, MINOR_NUMBER>>
held == <<dma_held, chrdev_held>>

\* ----------------------------------------------------------------- helpers
\* struct axidma_device as far as this file touches it, in a slot that is
\* not allocated.
FreshHandle ==
    [st |-> "free", pdev |-> UNSET, chrdev_name |-> UNSET,
     minor_num |-> -1, num_devices |-> -1]

Event(o, h, r) == [op |-> o, h |-> h, rc |-> r]

RECURSIVE Count(_, _)
Count(s, o) ==
    IF s = <<>> THEN 0
    ELSE (IF Head(s).op = o THEN 1 ELSE 0) + Count(Tail(s), o)

RECURSIVE CountOk(_, _)
CountOk(s, o) ==
    IF s = <<>> THEN 0
    ELSE (IF Head(s).op = o /\ Head(s).rc >= 0 THEN 1 ELSE 0)
         + CountOk(Tail(s), o)

RECURSIVE Ops(_)
Ops(s) == IF s = <<>> THEN <<>> ELSE <<Head(s).op>> \o Ops(Tail(s))

\* The allocated handles that belong to device d.
LiveOf(d) == {h \in Handles : heap[h].st = "live" /\ heap[h].pdev = d}

Snapshot(d) ==
    [drvdata |-> drvdata[d], live |-> LiveOf(d),
     dma |-> dma_held[d], chrdev |-> chrdev_held[d]]

\* -------------------------------------------------------------------- Init
Init ==
    /\ \E p \in ParamValues :
        /\ CHARACTER_DEVICE_NAME = p[1]
        /\ MINOR_NUMBER = p[2]
    /\ heap = [h \in Handles |-> FreshHandle]
    /\ drvdata = [d \in Devices |-> NULL]
    /\ pc = [d \in Devices |-> "idle"]
    /\ axidma_dev = [d \in Devices |-> NULL]
    /\ rc = [d \in Devices |-> 0]
    /\ ret = [d \in Devices |-> 0]
    /\ op = [d \in Devices |-> "none"]
    /\ dma_held = [d \in Devices |-> 0]
    /\ chrdev_held = [d \in Devices |-> 0]
    /\ bound = [d \in Devices |-> FALSE]
    /\ calls = 0
    /\ trace = [d \in Devices |-> <<>>]
    /\ pre = [d \in Devices |-> [drvdata |-> NULL, live |-> {}, dma |-> 0, chrdev |-> 0]]
    /\ acqOrder = [d \in Devices |-> <<>>]


\* ------------------------------------------------- variants of the code
\* Each variant below is the definition that follows it with one plausible
\* slip; the properties at the end must tell the variant from the code.

\* Slip: a failed axidma_dma_init jumps to destroy_dma_dev instead of
\* free_axidma_dev, so the DMA subsystem is released though never acquired.
ProbeNext_WrongLabel(p, r) ==
    CASE p = "p_dma_init"    -> IF r < 0 THEN "p_dma_exit" ELSE "p_config"
      [] p = "p_config"      -> "p_chrdev_init"
      [] p = "p_chrdev_init" -> IF r < 0 THEN "p_dma_exit" ELSE "p_set_drvdata"
      [] p = "p_dma_exit"    -> "p_kfree"
      [] OTHER               -> "idle"

\* Slip: a failed axidma_chrdev_init jumps to free_axidma_dev, skipping the
\* release of the DMA subsystem.
ProbeNext_SkipDmaExit(p, r) ==
    CASE p = "p_dma_init"    -> IF r < 0 THEN "p_kfree" ELSE "p_config"
      [] p = "p_config"      -> "p_chrdev_init"
      [] p = "p_chrdev_init" -> IF r < 0 THEN "p_kfree" ELSE "p_set_drvdata"
      [] p = "p_dma_exit"    -> "p_kfree"
      [] OTHER               -> "idle"

\* Slip: the allocation failure returns the same code as the labels.
ProbeReturn_OneCode(p) ==
    CASE p = "p_set_drvdata" -> 0
      [] OTHER               -> -ENOSYS

\* Slip: the result of axidma_dma_init is not tested.
ProbeNext_IgnoreDmaFailure(p, r) ==
    CASE p = "p_dma_init"    -> "p_config"
      [] p = "p_config"      -> "p_chrdev_init"
      [] p = "p_chrdev_init" -> IF r < 0 THEN "p_dma_exit" ELSE "p_set_drvdata"
      [] p = "p_dma_exit"    -> "p_kfree"
      [] OTHER               -> "idle"

\* Slip: destroy_dma_dev returns instead of falling through to
\* free_axidma_dev.
ProbeNext_ReturnWithoutFree(p, r) ==
    CASE p = "p_dma_init"    -> IF r < 0 THEN "p_kfree" ELSE "p_config"
      [] p = "p_config"      -> "p_chrdev_init"
      [] p = "p_chrdev_init" -> IF r < 0 THEN "p_dma_exit" ELSE "p_set_drvdata"
      [] OTHER               -> "idle"

\* Slip: the tests read "if (rc)" instead of "if (rc < 0)".
ProbeNext_NonZeroFails(p, r) ==
    CASE p = "p_dma_init"    -> IF r # 0 THEN "p_kfree" ELSE "p_config"
      [] p = "p_config"      -> "p_chrdev_init"
      [] p = "p_chrdev_init" -> IF r # 0 THEN "p_dma_exit" ELSE "p_set_drvdata"
      [] p = "p_dma_exit"    -> "p_kfree"
      [] OTHER               -> "idle"

\* ------------------------------------------------- xilinx_dma_bridge_probe
\* Control flow of probe after the statement at position p produced result r:
\* the "if (rc < 0) goto ..." branches and the fall-through of the labels.
ProbeNext(p, r) ==
    CASE p = "p_dma_init"    -> IF r < 0 THEN "p_kfree" ELSE "p_config"
      [] p = "p_config"      -> "p_chrdev_init"
      [] p = "p_chrdev_init" -> IF r < 0 THEN "p_dma_exit" ELSE "p_set_drvdata"
      [] p = "p_dma_exit"    -> "p_kfree"
      [] OTHER               -> "idle"

\* Value of the return statement reached at position p.
ProbeReturn(p) ==
    CASE p = "p_kmalloc"     -> -ENOMEM
      [] p = "p_set_drvdata" -> 0
      [] OTHER               -> -ENOSYS

\* The platform layer calls probe on an unbound device.
ProbeCall(d) ==
    /\ pc[d] = "idle"
    /\ ~bound[d]
    /\ calls < MaxCalls
    /\ calls' = calls + 1
    /\ pc' = [pc EXCEPT ![d] = "p_kmalloc"]
    /\ op' = [op EXCEPT ![d] = "probe"]
    /\ trace' = [trace EXCEPT ![d] = <<>>]
    /\ pre' = [pre EXCEPT ![d] = Snapshot(d)]
    /\ axidma_dev' = [axidma_dev EXCEPT ![d] = NULL]
    /\ rc' = [rc EXCEPT ![d] = 0]
    /\ UNCHANGED <<params, held, heap, drvdata, ret, bound, acqOrder>>

\* Slip: the driver data is set right after the allocation.
ProbeKmallocOk_Publish(d) ==
    /\ pc[d] = "p_kmalloc"
    /\ \E h \in Handles :
        /\ heap[h].st = "free"
        /\ heap' = [heap EXCEPT ![h] = [FreshHandle EXCEPT !.st = "live", !.pdev = d]]
        /\ axidma_dev' = [axidma_dev EXCEPT ![d] = h]
        /\ drvdata' = [drvdata EXCEPT ![d] = h]
        /\ trace' = [trace EXCEPT ![d] = Append(@, Event("kmalloc", h, 0))]
    /\ pc' = [pc EXCEPT ![d] = "p_dma_init"]
    /\ UNCHANGED <<params, held, rc, ret, op, bound, calls, pre, acqOrder>>

\* Slip: the configuration fields are assigned together with pdev, before
\* axidma_dma_init.
ProbeKmallocOk_ConfigFirst(d) ==
    /\ pc[d] = "p_kmalloc"
    /\ \E h \in Handles :
        /\ heap[h].st = "free"
        /\ heap' = [heap EXCEPT ![h] =
                       [st |-> "live", pdev |-> d,
                        chrdev_name |-> CHARACTER_DEVICE_NAME,
                        minor_num |-> MINOR_NUMBER,
                        num_devices |-> NUM_DEVICES]]
        /\ axidma_dev' = [axidma_dev EXCEPT ![d] = h]
        /\ trace' = [trace EXCEPT ![d] = Append(@, Event("kmalloc", h, 0))]
    /\ pc' = [pc EXCEPT ![d] = "p_dma_init"]
    /\ UNCHANGED <<params, held, drvdata, rc, ret, op, bound, calls, pre, acqOrder>>

\* kmalloc succeeded: axidma_dev->pdev = pdev.
ProbeKmallocOk(d) ==
    /\ pc[d] = "p_kmalloc"
    /\ \E h \in Handles :
        /\ heap[h].st = "free"
        /\ heap' = [heap EXCEPT ![h] = [FreshHandle EXCEPT !.st = "live", !.pdev = d]]
        /\ axidma_dev' = [axidma_dev EXCEPT ![d] = h]
        /\ trace' = [trace EXCEPT ![d] = Append(@, Event("kmalloc", h, 0))]
    /\ pc' = [pc EXCEPT ![d] = "p_dma_init"]
    /\ UNCHANGED <<params, held, drvdata, rc, ret, op, bound, calls, pre, acqOrder>>

\* kmalloc returned NULL: return -ENOMEM.
ProbeKmallocFail(d) ==
    /\ pc[d] = "p_kmalloc"
    /\ trace' = [trace EXCEPT ![d] = Append(@, Event("kmalloc", NULL, -1))]
    /\ ret' = [ret EXCEPT ![d] = ProbeReturn("p_kmalloc")]
    /\ pc' = [pc EXCEPT ![d] = "idle"]
    /\ UNCHANGED <<params, held, heap, drvdata, axidma_dev, rc, op, bound, calls, pre, acqOrder>>

\* rc = axidma_dma_init(pdev, axidma_dev); if (rc < 0) goto free_axidma_dev;
ProbeDmaInit(d) ==
    /\ pc[d] = "p_dma_init"
    /\ \E r \in RcValues :
        LET h == axidma_dev[d] IN
        /\ rc' = [rc EXCEPT ![d] = r]
        /\ dma_held' = [dma_held EXCEPT ![d] = IF r >= 0 THEN @ + 1 ELSE @]
        /\ trace' = [trace EXCEPT ![d] = Append(@, Event("axidma_dma_init", h, r))]
        /\ pc' = [pc EXCEPT ![d] = ProbeNext("p_dma_init", r)]
    /\ UNCHANGED <<params, heap, chrdev_held, drvdata, axidma_dev, ret, op, bound, calls, pre, acqOrder>>

\* Slip: the minor number is taken from the device count.
ProbeConfig_WrongMinor(d) ==
    /\ pc[d] = "p_config"
    /\ heap' = [heap EXCEPT ![axidma_dev[d]] =
                   [@ EXCEPT !.chrdev_name = CHARACTER_DEVICE_NAME,
                             !.minor_num = NUM_DEVICES,
                             !.num_devices = NUM_DEVICES]]
    /\ pc' = [pc EXCEPT ![d] = "p_chrdev_init"]
    /\ UNCHANGED <<params, held, drvdata, axidma_dev, rc, ret, op, bound, calls, trace, pre, acqOrder>>

\* axidma_dev->chrdev_name / minor_num / num_devices are assigned.
ProbeConfig(d) ==
    /\ pc[d] = "p_config"
    /\ heap' = [heap EXCEPT ![axidma_dev[d]] =
                   [@ EXCEPT !.chrdev_name = CHARACTER_DEVICE_NAME,
                             !.minor_num = MINOR_NUMBER,
                             !.num_devices = NUM_DEVICES]]
    /\ pc' = [pc EXCEPT ![d] = ProbeNext("p_config", 0)]
    /\ UNCHANGED <<params, held, drvdata, axidma_dev, rc, ret, op, bound, calls, trace, pre, acqOrder>>

\* rc = axidma_chrdev_init(axidma_dev); if (rc < 0) goto destroy_dma_dev;
ProbeChrdevInit(d) ==
    /\ pc[d] = "p_chrdev_init"
    /\ \E r \in RcValues :
        LET h == axidma_dev[d] IN
        /\ rc' = [rc EXCEPT ![d] = r]
        /\ chrdev_held' = [chrdev_held EXCEPT ![d] = IF r >= 0 THEN @ + 1 ELSE @]
        /\ trace' = [trace EXCEPT ![d] = Append(@, Event("axidma_chrdev_init", h, r))]
        /\ pc' = [pc EXCEPT ![d] = ProbeNext("p_chrdev_init", r)]
    /\ UNCHANGED <<params, heap, dma_held, drvdata, axidma_dev, ret, op, bound, calls, pre, acqOrder>>

\* dev_set_drvdata(&pdev->dev, axidma_dev); return 0;
ProbeSetDrvdata(d) ==
    /\ pc[d] = "p_set_drvdata"
    /\ drvdata' = [drvdata EXCEPT ![d] = axidma_dev[d]]
    /\ ret' = [ret EXCEPT ![d] = ProbeReturn("p_set_drvdata")]
    /\ pc' = [pc EXCEPT ![d] = ProbeNext("p_set_drvdata", 0)]
    /\ bound' = [bound EXCEPT ![d] = (ProbeReturn("p_set_drvdata") = 0)]
    /\ acqOrder' = [acqOrder EXCEPT ![d] =
                       SelectSeq(Ops(trace[d]),
                                 LAMBDA o : o \in {"axidma_dma_init", "axidma_chrdev_init"})]
    /\ UNCHANGED <<params, held, heap, axidma_dev, rc, op, calls, trace, pre>>

\* destroy_dma_dev: axidma_dma_exit(axidma_dev);
ProbeDmaExit(d) ==
    /\ pc[d] = "p_dma_exit"
    /\ \E ok \in BOOLEAN :
        LET h == axidma_dev[d] IN
        /\ dma_held' = [dma_held EXCEPT ![heap[h].pdev] = @ - 1]
        /\ trace' = [trace EXCEPT ![d] =
                        Append(@, Event("axidma_dma_exit", h, IF ok THEN 0 ELSE -1))]
    /\ pc' = [pc EXCEPT ![d] = ProbeNext("p_dma_exit", 0)]
    /\ UNCHANGED <<params, heap, chrdev_held, drvdata, axidma_dev, rc, ret, op, bound, calls, pre, acqOrder>>

\* free_axidma_dev: kfree(axidma_dev); return -ENOSYS;
ProbeKfree(d) ==
    /\ pc[d] = "p_kfree"
    /\ LET h == axidma_dev[d] IN
        /\ heap' = [heap EXCEPT ![h] = FreshHandle]
        /\ trace' = [trace EXCEPT ![d] = Append(@, Event("kfree", h, 0))]
    /\ ret' = [ret EXCEPT ![d] = ProbeReturn("p_kfree")]
    /\ pc' = [pc EXCEPT ![d] = ProbeNext("p_kfree", 0)]
    /\ UNCHANGED <<params, held, drvdata, axidma_dev, rc, op, bound, calls, pre, acqOrder>>


\* Slip: remove releases in acquisition order.
RemoveNext_AcquireOrder(p) ==
    CASE p = "r_get_drvdata" -> "r_dma_exit"
      [] p = "r_dma_exit"    -> "r_chrdev_exit"
      [] p = "r_chrdev_exit" -> "r_kfree"
      [] OTHER               -> "idle"

\* Slip: remove frees the handle before it cleans up the subsystems.
RemoveNext_FreeFirst(p) ==
    CASE p = "r_get_drvdata" -> "r_kfree"
      [] p = "r_kfree"       -> "r_chrdev_exit"
      [] p = "r_chrdev_exit" -> "r_dma_exit"
      [] OTHER               -> "idle"

\* ------------------------------------------------ xilinx_dma_bridge_remove
\* Control flow of remove: straight-line code, no branch.
RemoveNext(p) ==
    CASE p = "r_get_drvdata" -> "r_chrdev_exit"
      [] p = "r_chrdev_exit" -> "r_dma_exit"
      [] p = "r_dma_exit"    -> "r_kfree"
      [] OTHER               -> "idle"

\* Value of the only return statement of remove.
RemoveReturn == 0

\* Entry of remove, whoever calls it.
RemoveEnter(d) ==
    /\ pc[d] = "idle"
    /\ calls < MaxCalls
    /\ calls' = calls + 1
    /\ pc' = [pc EXCEPT ![d] = "r_get_drvdata"]
    /\ op' = [op EXCEPT ![d] = "remove"]
    /\ trace' = [trace EXCEPT ![d] = <<>>]
    /\ pre' = [pre EXCEPT ![d] = Snapshot(d)]
    /\ axidma_dev' = [axidma_dev EXCEPT ![d] = NULL]
    /\ rc' = [rc EXCEPT ![d] = 0]
    /\ UNCHANGED <<params, held, heap, drvdata, ret, bound, acqOrder>>

\* The platform layer calls remove on a bound device.
RemoveCall(d) ==
    /\ bound[d]
    /\ RemoveEnter(d)

\* A caller outside the platform layer's contract: remove on an unbound device.
RemoveCallUnbound(d) ==
    /\ ~bound[d]
    /\ RemoveEnter(d)

\* Slip: the handle is kept in one static pointer shared by all devices
\* (here: the slot of the first device) instead of the device's own slot.
RemoveGetDrvdata_Shared(d) ==
    /\ pc[d] = "r_get_drvdata"
    /\ axidma_dev' = [axidma_dev EXCEPT ![d] = drvdata["pdev0"]]
    /\ pc' = [pc EXCEPT ![d] = "r_chrdev_exit"]
    /\ UNCHANGED <<params, held, heap, drvdata, rc, ret, op, bound, calls, trace, pre, acqOrder>>

\* axidma_dev = dev_get_drvdata(&pdev->dev);
RemoveGetDrvdata(d) ==
    /\ pc[d] = "r_get_drvdata"
    /\ axidma_dev' = [axidma_dev EXCEPT ![d] = drvdata[d]]
    /\ pc' = [pc EXCEPT ![d] = RemoveNext("r_get_drvdata")]
    /\ UNCHANGED <<params, held, heap, drvdata, rc, ret, op, bound, calls, trace, pre, acqOrder>>

\* The pointer read from the driver data slot refers to allocated storage.
Valid(h) == h \in Handles /\ heap[h].st = "live"

\* Slip: remove gives up with an error when the character device cleanup
\* reports a problem.
RemoveChrdevExit_Abort(d) ==
    /\ pc[d] = "r_chrdev_exit"
    /\ Valid(axidma_dev[d])
    /\ \E ok \in BOOLEAN :
        LET h == axidma_dev[d] IN
        /\ chrdev_held' = [chrdev_held EXCEPT ![heap[h].pdev] = @ - 1]
        /\ trace' = [trace EXCEPT ![d] =
                        Append(@, Event("axidma_chrdev_exit", h, IF ok THEN 0 ELSE -1))]
        /\ pc' = [pc EXCEPT ![d] = IF ok THEN "r_dma_exit" ELSE "idle"]
        /\ ret' = [ret EXCEPT ![d] = IF ok THEN @ ELSE -ENOSYS]
    /\ UNCHANGED <<params, heap, dma_held, drvdata, axidma_dev, rc, op, bound, calls, pre, acqOrder>>

\* axidma_chrdev_exit(axidma_dev); its outcome is invisible to remove (void).
RemoveChrdevExit(d) ==
    /\ pc[d] = "r_chrdev_exit"
    /\ Valid(axidma_dev[d])
    /\ \E ok \in BOOLEAN :
        LET h == axidma_dev[d] IN
        /\ chrdev_held' = [chrdev_held EXCEPT ![heap[h].pdev] = @ - 1]
        /\ trace' = [trace EXCEPT ![d] =
                        Append(@, Event("axidma_chrdev_exit", h, IF ok THEN 0 ELSE -1))]
    /\ pc' = [pc EXCEPT ![d] = RemoveNext("r_chrdev_exit")]
    /\ UNCHANGED <<params, heap, dma_held, drvdata, axidma_dev, rc, ret, op, bound, calls, pre, acqOrder>>

\* axidma_dma_exit(axidma_dev);
RemoveDmaExit(d) ==
    /\ pc[d] = "r_dma_exit"
    /\ Valid(axidma_dev[d])
    /\ \E ok \in BOOLEAN :
        LET h == axidma_dev[d] IN
        /\ dma_held' = [dma_held EXCEPT ![heap[h].pdev] = @ - 1]
        /\ trace' = [trace EXCEPT ![d] =
                        Append(@, Event("axidma_dma_exit", h, IF ok THEN 0 ELSE -1))]
    /\ pc' = [pc EXCEPT ![d] = RemoveNext("r_dma_exit")]
    /\ UNCHANGED <<params, heap, chrdev_held, drvdata, axidma_dev, rc, ret, op, bound, calls, pre, acqOrder>>

\* kfree(axidma_dev); return 0;  The platform layer then unbinds the device.
RemoveKfree(d) ==
    /\ pc[d] = "r_kfree"
    /\ Valid(axidma_dev[d])
    /\ LET h == axidma_dev[d] IN
        /\ heap' = [heap EXCEPT ![h] = FreshHandle]
        /\ trace' = [trace EXCEPT ![d] = Append(@, Event("kfree", h, 0))]
    /\ ret' = [ret EXCEPT ![d] = RemoveReturn]
    /\ pc' = [pc EXCEPT ![d] = RemoveNext("r_kfree")]
    /\ bound' = [bound EXCEPT ![d] = FALSE]
    /\ acqOrder' = acqOrder
    /\ UNCHANGED <<params, held, drvdata, axidma_dev, rc, op, calls, pre>>

\* A subsystem exit function called with NULL or with freed storage: the call
\* is issued; dereferencing the pointer is undefined, the call either returns
\* having released nothing or the kernel thread dies in it ("oops").
RemoveExitStale(d) ==
    /\ pc[d] \in {"r_chrdev_exit", "r_dma_exit"}
    /\ ~Valid(axidma_dev[d])
    /\ trace' = [trace EXCEPT ![d] =
                    Append(@, Event(IF pc[d] = "r_chrdev_exit"
                                    THEN "axidma_chrdev_exit"
                                    ELSE "axidma_dma_exit", axidma_dev[d], -1))]
    /\ \E dies \in BOOLEAN :
        pc' = [pc EXCEPT ![d] = IF dies THEN "oops" ELSE RemoveNext(pc[d])]
    /\ UNCHANGED <<params, held, heap, drvdata, axidma_dev, rc, ret, op, bound, calls, pre, acqOrder>>

\* kfree(NULL) does nothing; kfree of freed storage is a double free, after
\* which the call either returns or the allocator stops the thread.
RemoveKfreeStale(d) ==
    /\ pc[d] = "r_kfree"
    /\ ~Valid(axidma_dev[d])
    /\ trace' = [trace EXCEPT ![d] = Append(@, Event("kfree", axidma_dev[d], -1))]
    /\ \E dies \in BOOLEAN :
        /\ dies => axidma_dev[d] # NULL
        /\ pc' = [pc EXCEPT ![d] = IF dies THEN "oops" ELSE RemoveNext("r_kfree")]
        /\ ret' = [ret EXCEPT ![d] = IF dies THEN @ ELSE RemoveReturn]
    /\ UNCHANGED <<params, held, heap, drvdata, axidma_dev, rc, op, bound, calls, pre, acqOrder>>

\* ------------------------------------------------------------ specifications
Step(d) ==
    \/ ProbeCall(d)
    \/ ProbeKmallocOk(d)
    \/ ProbeKmallocFail(d)
    \/ ProbeDmaInit(d)
    \/ ProbeConfig(d)
    \/ ProbeChrdevInit(d)
    \/ ProbeSetDrvdata(d)
    \/ ProbeDmaExit(d)
    \/ ProbeKfree(d)
    \/ RemoveCall(d)
    \/ RemoveGetDrvdata(d)
    \/ RemoveChrdevExit(d)
    \/ RemoveDmaExit(d)
    \/ RemoveKfree(d)

\* The platform layer keeps its contract: probe on unbound devices only,
\* remove on bound devices only, one call at a time per device.
Next == \E d \in Devices : Step(d)

Spec == Init /\ [][Next]_vars

\* The statements of a call that has been entered.  Probe and remove are
\* sequential code without loops or waits, so a call that was entered keeps
\* running as long as each collaborator returns; whether the platform layer
\* makes a further call is left open.
Run(d) ==
    \/ ProbeKmallocOk(d)
    \/ ProbeKmallocFail(d)
    \/ ProbeDmaInit(d)
    \/ ProbeConfig(d)
    \/ ProbeChrdevInit(d)
    \/ ProbeSetDrvdata(d)
    \/ ProbeDmaExit(d)
    \/ ProbeKfree(d)
    \/ RemoveGetDrvdata(d)
    \/ RemoveChrdevExit(d)
    \/ RemoveDmaExit(d)
    \/ RemoveKfree(d)

\* The same calls, of which the platform layer issues at most FairCalls, with
\* the entered calls kept running.
NextFair ==
    \E d \in Devices :
        \/ Run(d)
        \/ calls < FairCalls /\ ProbeCall(d)
        \/ calls < FairCalls /\ RemoveCall(d)

SpecFair == Init /\ [][NextFair]_vars /\ \A d \in Devices : WF_vars(Run(d))

\* Remove may also be called on a device that is not bound.
NextAny ==
    \E d \in Devices :
        \/ Step(d)
        \/ RemoveCallUnbound(d)
        \/ RemoveExitStale(d)
        \/ RemoveKfreeStale(d)

SpecAny == Init /\ [][NextAny]_vars


\* -------------------------------------------------------------- properties
\* States in which a call has just returned (and no new call was entered).
ProbeReturned(d) == op[d] = "probe" /\ pc[d] = "idle"
ProbeFailed(d) == ProbeReturned(d) /\ ret[d] < 0
ProbeSucceeded(d) == ProbeReturned(d) /\ ret[d] = 0
RemoveReturned(d) == op[d] = "remove" /\ pc[d] = "idle"

\* The events of a trace whose operation is in the set S.
Sel(s, S) == SelectSeq(s, LAMBDA e : e.op \in S)
\* The subsystem init call of a trace that failed, if any.
FailedInit(s) ==
    SelectSeq(s, LAMBDA e : e.op \in {"axidma_dma_init", "axidma_chrdev_init"} /\ e.rc < 0)
AllocFailed(s) == s # <<>> /\ s[1].op = "kmalloc" /\ s[1].rc < 0

Reverse(s) == [i \in 1..Len(s) |-> s[Len(s) + 1 - i]]
\* The exit function that undoes an init function.
ExitOf(o) == IF o = "axidma_dma_init" THEN "axidma_dma_exit" ELSE "axidma_chrdev_exit"

\* C1: when probe returns an error, each subsystem has been released exactly
\* as often as its init succeeded in that call (never when its init failed or
\* did not run), and the handle was freed once iff it had been allocated.
C1_NoLeakNoDoubleRelease ==
    \A d \in Devices :
        ProbeFailed(d) =>
            /\ Count(trace[d], "axidma_dma_exit") = CountOk(trace[d], "axidma_dma_init")
            /\ Count(trace[d], "axidma_chrdev_exit") = CountOk(trace[d], "axidma_chrdev_init")
            /\ Count(trace[d], "kfree") = CountOk(trace[d], "kmalloc")
            /\ \A o \in {"axidma_dma_init", "axidma_chrdev_init"} :
                  CountOk(trace[d], o) = 0 => Count(trace[d], ExitOf(o)) = 0

\* A probe that failed in axidma_chrdev_init after the DMA subsystem had been
\* acquired: one release of the DMA subsystem, one kfree.
C1_Witness ==
    \E d \in Devices :
        /\ ProbeFailed(d)
        /\ Ops(trace[d]) = <<"kmalloc", "axidma_dma_init", "axidma_chrdev_init",
                             "axidma_dma_exit", "kfree">>

\* C2: when a subsystem init fails with cause X (its negative result), probe
\* returns X.
C2_ReturnsCauseOfFailedStep ==
    \A d \in Devices :
        (ProbeReturned(d) /\ FailedInit(trace[d]) # <<>>) =>
            ret[d] = FailedInit(trace[d])[1].rc

C4_StrictReverseOrder ==
    \A d \in Devices :
        op[d] = "remove" =>
            LET rel == Ops(Sel(trace[d], {"axidma_dma_exit", "axidma_chrdev_exit"}))
                want == Reverse([i \in 1..Len(acqOrder[d]) |-> ExitOf(acqOrder[d][i])])
            IN  /\ acqOrder[d] = <<"axidma_dma_init", "axidma_chrdev_init">>
                /\ Len(rel) <= Len(want)
                /\ rel = SubSeq(want, 1, Len(rel))
                /\ pc[d] = "idle" => rel = want

\* Remove has returned after both releases.
C4_Witness ==
    \E d \in Devices :
        /\ RemoveReturned(d)
        /\ Len(Sel(trace[d], {"axidma_dma_exit", "axidma_chrdev_exit"})) = 2

\* C5: when remove returns, the driver data slot holds no handle, so it never
\* refers to freed storage; the storage was freed exactly once.
C5_DetachClearsAssociation ==
    \A d \in Devices :
        RemoveReturned(d) =>
            /\ drvdata[d] = NULL
            /\ Count(trace[d], "kfree") = 1

\* C6: remove on a device that has no handle of its own on entry issues no
\* subsystem release call and no kfree of storage.
C6_RemoveWithoutHandleIsNoOp ==
    \A d \in Devices :
        (op[d] = "remove" /\ pre[d].live = {}) =>
            /\ Sel(trace[d], {"axidma_dma_exit", "axidma_chrdev_exit"}) = <<>>
            /\ \A i \in 1..Len(trace[d]) :
                  trace[d][i].op = "kfree" => trace[d][i].h = NULL

\* C7: when kmalloc fails, probe calls nothing else (no init, no exit, no
\* kfree), leaves the slot and the subsystems as they were, and returns
\* -ENOMEM; a probe in which a subsystem init failed never returns -ENOMEM.
C7_AllocFailureNoSideEffects ==
    \A d \in Devices :
        /\ (op[d] = "probe" /\ AllocFailed(trace[d])) =>
              /\ Len(trace[d]) = 1
              /\ pc[d] = "idle"
              /\ ret[d] = -ENOMEM
              /\ Snapshot(d) = pre[d]
        /\ (ProbeReturned(d) /\ FailedInit(trace[d]) # <<>>) => ret[d] # -ENOMEM
        /\ (ProbeReturned(d) /\ ret[d] = -ENOMEM) => AllocFailed(trace[d])

\* kmalloc failed in the probe of one device, and the probe of another device
\* failed because a subsystem init reported -ENOMEM itself.
C7_Witness ==
    \E d \in Devices :
        /\ ProbeReturned(d) /\ AllocFailed(trace[d])
        /\ \E e \in Devices :
              /\ ProbeFailed(e)
              /\ FailedInit(trace[e]) # <<>>
              /\ FailedInit(trace[e])[1].rc = -ENOMEM

\* C8: after a successful probe the device has exactly one handle; it is the
\* one in the driver data slot, it names the device and carries the configured
\* name, minor number and device count; kmalloc and both inits were each called
\* once.  In no probe, failed or not, is any of the three called twice.
C8_SuccessfulAttach ==
    \A d \in Devices :
        /\ ProbeSucceeded(d) =>
              /\ LiveOf(d) = {drvdata[d]}
              /\ heap[drvdata[d]] =
                    [st |-> "live", pdev |-> d,
                     chrdev_name |-> CHARACTER_DEVICE_NAME,
                     minor_num |-> MINOR_NUMBER,
                     num_devices |-> NUM_DEVICES]
              /\ Ops(Sel(trace[d], {"kmalloc", "axidma_dma_init", "axidma_chrdev_init"}))
                    = <<"kmalloc", "axidma_dma_init", "axidma_chrdev_init">>
              /\ dma_held[d] = 1 /\ chrdev_held[d] = 1
        /\ op[d] = "probe" =>
              \A o \in {"kmalloc", "axidma_dma_init", "axidma_chrdev_init"} :
                  Count(trace[d], o) <= 1

\* A successful probe with the default parameters (minor number 0).
C8_Witness ==
    \E d \in Devices :
        /\ ProbeSucceeded(d)
        /\ MINOR_NUMBER = 0
        /\ heap[drvdata[d]].chrdev_name = "xilinx_dma_bridge"

\* C9: when probe returns an error, the driver data slot, the set of allocated
\* handles of the device and the held counts of both subsystems are what they
\* were when probe was entered.
C9_FailedAttachLeavesNoTrace ==
    \A d \in Devices :
        ProbeFailed(d) => Snapshot(d) = pre[d]

\* A probe that failed in axidma_chrdev_init on a device whose slot still
\* holds the handle of an earlier attach.
C9_Witness ==
    \E d \in Devices :
        /\ ProbeFailed(d)
        /\ Count(trace[d], "axidma_dma_exit") = 1
        /\ pre[d].drvdata # NULL

\* C10: remove on an attached device calls axidma_chrdev_exit, axidma_dma_exit
\* and kfree, in this order and whatever the outcome of a release, and returns
\* 0; it stops nowhere else.
C10_TeardownTotal ==
    \A d \in Devices :
        /\ RemoveReturned(d) =>
              /\ Ops(trace[d]) = <<"axidma_chrdev_exit", "axidma_dma_exit", "kfree">>
              /\ ret[d] = 0
              /\ pre[d].live # {}
              /\ LiveOf(d) = {}
        /\ op[d] = "remove" =>
              pc[d] \in {"idle", "r_get_drvdata", "r_chrdev_exit", "r_dma_exit", "r_kfree"}

\* Remove returned 0 although both releases reported a problem.
C10_Witness ==
    \E d \in Devices :
        /\ RemoveReturned(d)
        /\ Len(trace[d]) = 3
        /\ trace[d][1].rc < 0
        /\ trace[d][2].rc < 0
        /\ ret[d] = 0


\* The two states of a device between calls.
Unattached(d) ==
    /\ LiveOf(d) = {}
    /\ dma_held[d] = 0 /\ chrdev_held[d] = 0
    /\ drvdata[d] = NULL
Attached(d) ==
    /\ Cardinality(LiveOf(d)) = 1
    /\ dma_held[d] = 1 /\ chrdev_held[d] = 1
    /\ drvdata[d] \in LiveOf(d)

\* C11: whenever no call is in progress on a device it is UNATTACHED (no
\* allocated handle, no subsystem held, no handle in the driver data slot) or
\* ATTACHED (one handle, both subsystems held once, the slot pointing to the
\* handle), and it is ATTACHED exactly when the platform layer has it bound.
C11_TwoStateLifecycle ==
    \A d \in Devices :
        pc[d] = "idle" =>
            /\ Unattached(d) \/ Attached(d)
            /\ bound[d] <=> Attached(d)

\* A subsystem's held count just before event i of the running call, given
\* the count on entry.
HeldBefore(s, i, base, init) ==
    base + CountOk(SubSeq(s, 1, i - 1), init) - Count(SubSeq(s, 1, i - 1), ExitOf(init))

\* C12: in every state the character device is held only if the DMA subsystem
\* is held; axidma_chrdev_init is called only after axidma_dma_init succeeded
\* in the same probe, and axidma_dma_exit is called only when the character
\* device is not held.
C12_AcquisitionOrder ==
    \A d \in Devices :
        /\ dma_held[d] \in {0, 1} /\ chrdev_held[d] \in {0, 1}
        /\ chrdev_held[d] = 1 => dma_held[d] = 1
        /\ \A i \in 1..Len(trace[d]) :
              /\ trace[d][i].op = "axidma_chrdev_init" =>
                    /\ CountOk(SubSeq(trace[d], 1, i - 1), "axidma_dma_init") = 1
                    /\ HeldBefore(trace[d], i, pre[d].dma, "axidma_dma_init") = 1
              /\ trace[d][i].op = "axidma_dma_exit" =>
                    HeldBefore(trace[d], i, pre[d].chrdev, "axidma_chrdev_init") = 0

\* Inside remove, after the character device was released and before the DMA
\* subsystem is.
C12_Witness ==
    \E d \in Devices :
        /\ pc[d] = "r_dma_exit"
        /\ chrdev_held[d] = 0
        /\ dma_held[d] = 1

\* Positions of a call at which the handle in axidma_dev is about to be used.
UsesHandle(p) ==
    p \in {"p_dma_init", "p_config", "p_chrdev_init", "p_set_drvdata", "p_dma_exit",
           "p_kfree", "r_chrdev_exit", "r_dma_exit", "r_kfree"}

\* C13: a call frees the handle at most once, kfree is the last collaborator
\* call of the call (after every release), and at every point where the call
\* is about to use the handle (init, exit, field write, publish, kfree) the
\* handle is allocated storage of this device; all calls of one probe or
\* remove work on the same handle.
C13_FreedLastNeverUsedAfter ==
    \A d \in Devices :
        /\ Count(trace[d], "kfree") <= 1
        /\ \A i \in 1..Len(trace[d]) :
              /\ trace[d][i].op = "kfree" => (i = Len(trace[d]) /\ pc[d] = "idle")
              /\ trace[d][i].h \in {NULL, axidma_dev[d]}
        /\ UsesHandle(pc[d]) =>
              /\ Valid(axidma_dev[d])
              /\ heap[axidma_dev[d]].pdev = d
        /\ ProbeSucceeded(d) => Valid(drvdata[d])

\* Remove has returned: kfree came third, after both releases.
C13_Witness ==
    \E d \in Devices :
        /\ RemoveReturned(d)
        /\ Len(trace[d]) = 3
        /\ trace[d][3].op = "kfree"
        /\ heap[trace[d][3].h].st = "free"

\* The configuration fields of a handle have not been assigned.
ConfigUnset(h) ==
    /\ heap[h].chrdev_name = UNSET
    /\ heap[h].minor_num = FreshHandle.minor_num
    /\ heap[h].num_devices = FreshHandle.num_devices
ConfigSet(h) ==
    /\ heap[h].chrdev_name = CHARACTER_DEVICE_NAME
    /\ heap[h].minor_num = MINOR_NUMBER
    /\ heap[h].num_devices = NUM_DEVICES

\* C14: pdev is written before axidma_dma_init is called; the configuration
\* fields are unwritten until axidma_dma_init has succeeded and are written
\* before axidma_chrdev_init is called, with the DMA subsystem held; when
\* axidma_dma_init fails they are still unwritten when the handle is freed.
C14_PopulationOrder ==
    \A d \in Devices :
        LET h == axidma_dev[d] IN
        /\ pc[d] \in {"p_dma_init", "p_config"} =>
              (heap[h].pdev = d /\ ConfigUnset(h))
        /\ pc[d] = "p_config" => dma_held[d] = 1
        /\ pc[d] = "p_chrdev_init" =>
              (heap[h].pdev = d /\ ConfigSet(h) /\ dma_held[d] = 1)
        /\ (pc[d] = "p_kfree" /\ CountOk(trace[d], "axidma_dma_init") = 0) =>
              ConfigUnset(h)
        /\ (pc[d] = "p_kfree" /\ CountOk(trace[d], "axidma_dma_init") = 1) =>
              ConfigSet(h)

\* axidma_chrdev_init is about to be called with a handle that carries the
\* parameters given on the command line.
C14_Witness ==
    \E d \in Devices :
        /\ pc[d] = "p_chrdev_init"
        /\ heap[axidma_dev[d]].chrdev_name = "dev0"
        /\ heap[axidma_dev[d]].minor_num = 1


\* Everything a device owns or that describes its calls.
PerDev(e) ==
    [drvdata |-> drvdata[e], dma |-> dma_held[e], chrdev |-> chrdev_held[e],
     handles |-> [h \in LiveOf(e) |-> heap[h]],
     pc |-> pc[e], axidma_dev |-> axidma_dev[e], rc |-> rc[e], ret |-> ret[e],
     op |-> op[e], bound |-> bound[e], trace |-> trace[e], pre |-> pre[e],
     acqOrder |-> acqOrder[e]]

\* C15: a step of a call on one device changes nothing that belongs to another
\* device (its slot, its handle and the handle's fields, its subsystem counts,
\* the position, locals, result and trace of its calls), and the handle the
\* step works on afterwards is not one of another device.
C15_InstancesIndependent ==
    [][\A d \in Devices : \A e \in Devices \ {d} :
          pc'[d] # pc[d] =>
              /\ PerDev(e)' = PerDev(e)
              /\ axidma_dev'[d] \notin LiveOf(e)']_vars

\* Calls on both devices are in progress at once: a remove between its two
\* releases and a probe that has acquired the DMA subsystem.
C15_Witness ==
    \E d \in Devices : \E e \in Devices \ {d} :
        /\ pc[d] = "r_dma_exit"
        /\ pc[e] = "p_chrdev_init"

\* What holds when a call has returned: probe either succeeded with the handle
\* published and both subsystems held, or failed with everything as on entry;
\* remove has released both subsystems and freed the handle.
OutcomeComplete(d) ==
    /\ ProbeReturned(d) =>
          \/ ret[d] = 0 /\ drvdata[d] \in LiveOf(d)
                        /\ dma_held[d] = 1 /\ chrdev_held[d] = 1
          \/ ret[d] < 0 /\ Snapshot(d) = pre[d] /\ LiveOf(d) = {}
    /\ RemoveReturned(d) =>
          /\ LiveOf(d) = {} /\ dma_held[d] = 0 /\ chrdev_held[d] = 0
          /\ ret[d] = 0

\* C16: every call that was entered returns, and when it has returned probe
\* has either published the handle or completed its rollback and remove has
\* released everything; so no call rests with a subsystem held and no handle
\* published.
C16_RunToCompletion ==
    \A d \in Devices :
        /\ [](pc[d] = "idle" => OutcomeComplete(d))
        /\ (pc[d] # "idle") ~> (pc[d] = "idle")

\* A probe has failed and rolled back on one device after the probe of the
\* other device succeeded.
C16_Witness ==
    \E d \in Devices : \E e \in Devices \ {d} :
        /\ ProbeFailed(d)
        /\ Len(trace[d]) = 5
        /\ ProbeSucceeded(e)

\* C17: probe returns 0 when kmalloc and both inits succeeded, -ENOMEM when
\* kmalloc failed and -ENOSYS when an init returned a negative result, whatever
\* that result was; an init that returns zero or a positive value is followed
\* by the next step of the success path, never by rollback.
C17_ReturnValues ==
    \A d \in Devices :
        /\ ProbeReturned(d) =>
              /\ ret[d] \in {0, -ENOMEM, -ENOSYS}
              /\ ret[d] = (IF AllocFailed(trace[d]) THEN -ENOMEM
                           ELSE IF FailedInit(trace[d]) # <<>> THEN -ENOSYS
                           ELSE 0)
              /\ FailedInit(trace[d]) = <<>> =>
                    Sel(trace[d], {"axidma_dma_exit", "kfree"}) = <<>>
        /\ op[d] = "probe" =>
              \A i \in 1..Len(trace[d]) :
                  (/\ trace[d][i].op \in {"axidma_dma_init", "axidma_chrdev_init"}
                   /\ trace[d][i].rc >= 0
                   /\ i < Len(trace[d])) =>
                      trace[d][i + 1].op = "axidma_chrdev_init"

\* A probe returned 0 although both inits returned the positive value 1.
C17_Witness ==
    \E d \in Devices :
        /\ ProbeSucceeded(d)
        /\ trace[d][2].rc = 1
        /\ trace[d][3].rc = 1

====
